---- MODULE Spec2Model ----
(***************************************************************************)
(* Model of src/app.py, the YouTube Video Finder script: one run of the    *)
(* script from module load to the Top Pick, plus the functions             *)
(* filter_videos and select_best_video applied to bounded inputs.          *)
(*                                                                         *)
(* Representation.                                                         *)
(*   - A Python str that is only tested for emptiness (the query) is a TLA *)
(*     string; a str that is parsed (the model's reply) is a sequence of   *)
(*     one-character strings.                                              *)
(*   - A duration in minutes (a float) is kept as the exact number of      *)
(*     seconds s, standing for s/60 minutes; a duration rounded to two     *)
(*     decimals is kept in hundredths of a minute.                         *)
(*   - None is the record None; a raised exception is a status field.      *)
(***************************************************************************)
EXTENDS Integers, Sequences, FiniteSets

VARIABLES
    pc,             \* position of the script / of the called function
    mode,           \* line 18: the radio's value
    pressed,        \* line 51: the button's value in this run
    voice_enabled,  \* lines 21-25
    query,          \* lines 50, 53
    ids,            \* line 111
    details,        \* line 80: the metadata response (local to filter_videos)
    filtered,       \* line 117 (the argument videos of select_best_video)
    choice,         \* line 102: the model's reply (local to select_best_video)
    best,           \* line 129
    calls,          \* the external calls made, in order
    raised,         \* the call sites whose call raised
    out             \* what the page shows, in order

vars == <<pc, mode, pressed, voice_enabled, query, ids, details, filtered,
          choice, best, calls, raised, out>>

-----------------------------------------------------------------------------
(* Bounds of the model and constants of the program *)

\* longest list of identifiers a search returns in the model (the program
\* asks for maxResults=20, line 66)
MaxIds == 6

\* longest reply of the language model, in characters
MaxReplyLen == 2

\* line 83: the duration window, in minutes
MinMinutes == 4
MaxMinutes == 20

\* line 123: filtered[:5]
DisplayLimit == 5

Queries == {"lofi study beats"}

None == [none |-> TRUE]

-----------------------------------------------------------------------------
(* Generic helpers *)

Last(s) == s[Len(s)]

Min(a, b) == IF a <= b THEN a ELSE b

Reverse(s) == [i \in 1..Len(s) |-> s[Len(s) + 1 - i]]

\* the messages of a page
Msg(kind, text) == [kind |-> kind, text |-> text]

Shown(kind, text) == \E i \in 1..Len(out) : out[i].kind = kind /\ out[i].text = text

-----------------------------------------------------------------------------
(* str.strip() and int() on a reply *)

Whitespace == {" "}

DigitChars == <<"0", "1", "2", "3", "4", "5", "6", "7", "8", "9">>

IsDigit(c) == \E d \in 1..Len(DigitChars) : DigitChars[d] = c

DigitVal(c) == (CHOOSE d \in 1..Len(DigitChars) : DigitChars[d] = c) - 1

\* characters a reply is made of in the model
ReplyChars == {" ", "-", "+", "_", "x"} \cup {DigitChars[d] : d \in 1..Len(DigitChars)}

RECURSIVE lstrip(_)
lstrip(s) ==
    IF s # <<>> /\ Head(s) \in Whitespace THEN lstrip(Tail(s)) ELSE s

RECURSIVE rstrip(_)
rstrip(s) ==
    IF s # <<>> /\ Last(s) \in Whitespace THEN rstrip(SubSeq(s, 1, Len(s) - 1)) ELSE s

\* line 102: .strip()
strip(s) == rstrip(lstrip(s))

\* the digit part of an integer literal: digits, single underscores between them
ValidDigits(s) ==
    /\ s # <<>>
    /\ IsDigit(Head(s))
    /\ IsDigit(Last(s))
    /\ \A i \in 1..Len(s) : IsDigit(s[i]) \/ s[i] = "_"
    /\ \A i \in 1..(Len(s) - 1) : ~(s[i] = "_" /\ s[i + 1] = "_")

RECURSIVE DigitsValue(_, _)
DigitsValue(s, acc) ==
    IF s = <<>> THEN acc
    ELSE IF Head(s) = "_" THEN DigitsValue(Tail(s), acc)
    ELSE DigitsValue(Tail(s), 10 * acc + DigitVal(Head(s)))

ValueError == [ok |-> FALSE, val |-> 0]

\* line 103: int(choice); int() ignores surrounding whitespace, takes one
\* optional sign, and raises ValueError on anything else
int(s) ==
    LET t == strip(s)
        signed == t # <<>> /\ Head(t) \in {"-", "+"}
        body == IF signed THEN Tail(t) ELSE t
    IN  IF ~ValidDigits(body) THEN ValueError
        ELSE [ok |-> TRUE,
              val |-> IF signed /\ Head(t) = "-"
                      THEN 0 - DigitsValue(body, 0)
                      ELSE DigitsValue(body, 0)]

-----------------------------------------------------------------------------
(* The external collaborators' answers *)

\* sequences over S of length at most n
SeqsUpTo(S, n) == UNION {[1..k -> S] : k \in 0..n}

\* generate_content(prompt).text: a text, or the call raises
Replies == SeqsUpTo(ReplyChars, MaxReplyLen)

ModelRaises == [status |-> "raise", text |-> <<>>]

ModelResponses == {ModelRaises} \cup {[status |-> "text", text |-> r] : r \in Replies}

NoChoice == [status |-> "none", text |-> <<>>]

\* youtube.search().list(...).execute(): it raises, or returns up to MaxIds
\* items; the identifiers are the opaque tokens 1..n
SearchRaises == [status |-> "raise", ids |-> <<>>]

SearchResponses ==
    {SearchRaises} \cup {[status |-> "ok", ids |-> [i \in 1..n |-> i]] : n \in 0..MaxIds}

\* contentDetails.duration: an ISO-8601 duration PT<H>H<M>M<S>S, or a string
\* isodate cannot parse
Iso(h, m, s) == [ok |-> TRUE, H |-> h, M |-> m, S |-> s]

Malformed == [ok |-> FALSE, H |-> 0, M |-> 0, S |-> 0]

IsoDurations == {Iso(0, 3, 59), Iso(0, 4, 0), Iso(0, 20, 0), Iso(0, 20, 1), Malformed}

\* youtube.videos().list(id=",".join(ids)).execute(): it raises, or returns one
\* item per identifier, in the order asked or in the opposite order
DetailsRaises == [status |-> "raise", items |-> <<>>]

NoDetails == [status |-> "none", items |-> <<>>]

DetailsOk(idlist, reversed, d) ==
    LET order == IF reversed THEN Reverse(idlist) ELSE idlist
    IN  [status |-> "ok",
         items |-> [i \in 1..Len(order) |-> [id |-> order[i], duration |-> d[i]]]]

\* the speech collaborator: Microphone() raises, listen() times out,
\* recognize_google() cannot understand or fails, or a transcript comes back
VoiceOutcomes ==
    {[kind |-> k, text |-> ""] :
        k \in {"MicrophoneError", "WaitTimeoutError", "UnknownValueError", "RequestError"}}
        \cup {[kind |-> "text", text |-> q] : q \in Queries}

-----------------------------------------------------------------------------
(* The functions of the script.  Each takes the collaborator's answer as an  *)
(* argument and returns what it returns (ret), what it shows (out), the      *)
(* calls it made (calls: record_voice's capture attempt, the search, the     *)
(* metadata fetch, the model call) and the call sites that raised (raised).  *)

\* record_voice with the last handler returning the exception's text
record_voice_ReturnsErrorText(enabled, o) ==
    IF ~enabled
    THEN [ret |-> "", calls |-> <<"record_voice">>, raised |-> {},
          out |-> <<Msg("warning", "SpeechRecognition is not available. Please use text input.")>>]
    ELSE IF o.kind = "text"
    THEN [ret |-> o.text, calls |-> <<"record_voice">>, raised |-> {},
          out |-> <<Msg("info", "Speak now... (auto-stops after a pause)")>>]
    ELSE [ret |-> "recognition request failed", calls |-> <<"record_voice">>,
          raised |-> {"record_voice"},
          out |-> <<Msg("error", "Error during voice recognition")>>]

\* lines 27-48
record_voice(enabled, o) ==
    IF ~enabled
    THEN [ret |-> "", calls |-> <<"record_voice">>, raised |-> {},
          out |-> <<Msg("warning", "SpeechRecognition is not available. Please use text input.")>>]
    ELSE LET speak == <<Msg("info", "Speak now... (auto-stops after a pause)")>>
         IN  CASE o.kind = "text" ->
                    [ret |-> o.text, calls |-> <<"record_voice">>,
                     raised |-> {}, out |-> speak]
               [] o.kind = "MicrophoneError" ->
                    [ret |-> "", calls |-> <<"record_voice">>, raised |-> {"record_voice"},
                     out |-> <<Msg("error", "Error during voice recognition")>>]
               [] o.kind = "WaitTimeoutError" ->
                    [ret |-> "", calls |-> <<"record_voice">>, raised |-> {"record_voice"},
                     out |-> speak \o <<Msg("warning", "No speech detected within timeout.")>>]
               [] o.kind = "UnknownValueError" ->
                    [ret |-> "", calls |-> <<"record_voice">>,
                     raised |-> {"record_voice"},
                     out |-> speak \o <<Msg("warning", "Could not understand audio.")>>]
               [] OTHER ->
                    [ret |-> "", calls |-> <<"record_voice">>,
                     raised |-> {"record_voice"},
                     out |-> speak \o <<Msg("error", "Error during voice recognition")>>]

\* lines 60-71
search_youtube(q, resp) ==
    IF q = "" THEN [ret |-> <<>>, calls |-> <<>>, raised |-> {}, out |-> <<>>]
    ELSE IF resp.status = "raise"
    THEN [ret |-> <<>>, calls |-> <<"search">>, raised |-> {"search"},
          out |-> <<Msg("error", "API Error")>>]
    ELSE [ret |-> resp.ids, calls |-> <<"search">>, raised |-> {}, out |-> <<>>]

\* lines 73-74: the value is in seconds, standing for seconds/60 minutes; a
\* string isodate cannot parse raises
parse_duration(iso) ==
    IF ~iso.ok THEN [ok |-> FALSE, seconds |-> 0]
    ELSE [ok |-> TRUE, seconds |-> 3600 * iso.H + 60 * iso.M + iso.S]

\* the window without its upper end
InWindow_NoUpperEnd(seconds) == MinMinutes * 60 <= seconds

\* line 83: 4 <= dur <= 20, dur in minutes
InWindow(seconds) == MinMinutes * 60 <= seconds /\ seconds <= MaxMinutes * 60

\* line 87: round(dur, 2), in hundredths of a minute (seconds * 100 / 60 is
\* never half-way between two integers)
round2(seconds) == (seconds * 100 + 30) \div 60

\* lines 84-88
VideoRecord(item, seconds) ==
    [title |-> <<"title of", item.id>>,
     url |-> <<"https://www.youtube.com/watch?v=", item.id>>,
     duration |-> round2(seconds)]

\* the record put at the front of the list
AppendRecord_AtFront(acc, rec) == <<rec>> \o acc

\* line 84: filtered.append(record)
AppendRecord(acc, rec) == Append(acc, rec)

\* lines 81-88: the loop over the items, from item i on; an item whose
\* duration does not parse raises out of the loop
RECURSIVE filter_loop(_, _, _)
filter_loop(items, i, acc) ==
    IF i > Len(items) THEN [filtered |-> acc, raised |-> FALSE]
    ELSE LET dur == parse_duration(items[i].duration)
         IN  IF ~dur.ok THEN [filtered |-> acc, raised |-> TRUE]
             ELSE IF InWindow(dur.seconds)
             THEN filter_loop(items, i + 1, AppendRecord(acc, VideoRecord(items[i], dur.seconds)))
             ELSE filter_loop(items, i + 1, acc)

\* lines 76-91
filter_videos(idlist, resp) ==
    IF idlist = <<>> THEN [ret |-> <<>>, calls |-> <<>>, raised |-> {}, out |-> <<>>]
    ELSE IF resp.status = "raise"
    THEN [ret |-> <<>>, calls |-> <<"videos">>, raised |-> {"videos"},
          out |-> <<Msg("error", "Duration Filter Error")>>]
    ELSE LET r == filter_loop(resp.items, 1, <<>>)
         IN  [ret |-> r.filtered, calls |-> <<"videos">>,
              raised |-> IF r.raised THEN {"parse_duration"} ELSE {},
              out |-> IF r.raised THEN <<Msg("error", "Duration Filter Error")>> ELSE <<>>]

\* lines 102-103: the reply stripped and parsed, or the exception of the call
ParseReply(resp) ==
    IF resp.status = "raise" THEN [status |-> "raise", ok |-> FALSE, val |-> 0]
    ELSE [status |-> "text", ok |-> int(strip(resp.text)).ok, val |-> int(strip(resp.text)).val]

\* the reply used as the index without the - 1
PickIndex_OffByOne(videos, idx) ==
    IF 0 <= idx + 1 /\ idx + 1 < Len(videos) THEN videos[idx + 2] ELSE videos[1]

\* the range test without 0 <=: a negative Python index counts from the end,
\* and one below -len(videos) raises IndexError into the except
PickIndex_NoLowerEnd(videos, idx) ==
    IF idx < Len(videos)
    THEN IF idx >= 0 THEN videos[idx + 1]
         ELSE IF Len(videos) + idx >= 0 THEN videos[Len(videos) + idx + 1]
         ELSE videos[1]
    ELSE videos[1]

\* line 104: videos[idx] if 0 <= idx < len(videos) else videos[0]
\* (Python's index idx is position idx + 1 of the sequence)
PickIndex(videos, idx) ==
    IF 0 <= idx /\ idx < Len(videos) THEN videos[idx + 1] ELSE videos[1]

\* the except returning None
SelectFallback_ReturnsNone(videos) ==
    [ret |-> None, calls |-> <<"generate_content">>, raised |-> {"generate_content"},
     out |-> <<>>]

\* lines 105-106: except: return videos[0], with nothing shown
SelectFallback(videos) ==
    [ret |-> videos[1], calls |-> <<"generate_content">>, raised |-> {"generate_content"},
     out |-> <<>>]

\* the guard of line 94 without "or not query"
select_parsed_NoQueryGuard(videos, q, parsed) ==
    IF videos = <<>>
    THEN [ret |-> None, calls |-> <<>>, raised |-> {}, out |-> <<>>]
    ELSE IF parsed.status = "raise"
    THEN [ret |-> videos[1], calls |-> <<"generate_content">>,
          raised |-> {"generate_content"}, out |-> <<>>]
    ELSE IF ~parsed.ok
    THEN [ret |-> videos[1], calls |-> <<"generate_content">>, raised |-> {}, out |-> <<>>]
    ELSE [ret |-> IF 0 <= parsed.val - 1 /\ parsed.val - 1 < Len(videos)
                  THEN videos[parsed.val] ELSE videos[1],
          calls |-> <<"generate_content">>, raised |-> {}, out |-> <<>>]

\* the reply 0 taken as "none match": None returned
select_parsed_ZeroIsNone(videos, q, parsed) ==
    IF videos = <<>> \/ q = ""
    THEN [ret |-> IF videos # <<>> THEN videos[1] ELSE None,
          calls |-> <<>>, raised |-> {}, out |-> <<>>]
    ELSE IF parsed.status = "raise"
    THEN [ret |-> videos[1], calls |-> <<"generate_content">>,
          raised |-> {"generate_content"}, out |-> <<>>]
    ELSE IF ~parsed.ok
    THEN [ret |-> videos[1], calls |-> <<"generate_content">>, raised |-> {}, out |-> <<>>]
    ELSE IF parsed.val = 0
    THEN [ret |-> None, calls |-> <<"generate_content">>, raised |-> {}, out |-> <<>>]
    ELSE [ret |-> IF 0 <= parsed.val - 1 /\ parsed.val - 1 < Len(videos)
                  THEN videos[parsed.val] ELSE videos[1],
          calls |-> <<"generate_content">>, raised |-> {}, out |-> <<>>]

\* lines 93-106, on the parsed reply
select_parsed(videos, q, parsed) ==
    IF videos = <<>> \/ q = ""
    THEN [ret |-> IF videos # <<>> THEN videos[1] ELSE None,
          calls |-> <<>>, raised |-> {}, out |-> <<>>]
    ELSE IF parsed.status = "raise" THEN SelectFallback(videos)
    ELSE IF ~parsed.ok
    THEN [ret |-> videos[1], calls |-> <<"generate_content">>, raised |-> {}, out |-> <<>>]
    ELSE [ret |-> PickIndex(videos, parsed.val - 1),
          calls |-> <<"generate_content">>, raised |-> {}, out |-> <<>>]

\* lines 93-106
select_best_video(videos, q, resp) == select_parsed(videos, q, ParseReply(resp))

\* what the replies parse to
ParsedReplies == {ParseReply(r) : r \in ModelResponses}

\* line 125 with >= for >
RenderResults_MoreAtLimit(videos) ==
    <<Msg("subheader", "Filtered Results:")>>
        \o [i \in 1..Min(Len(videos), DisplayLimit) |->
                [kind |-> "markdown", text |-> "item", n |-> i, v |-> videos[i]]]
        \o (IF Len(videos) >= DisplayLimit
            THEN <<[kind |-> "markdown", text |-> "...and more.",
                    n |-> Len(videos) - DisplayLimit]>>
            ELSE <<>>)

\* lines 122-126
RenderResults(videos) ==
    <<Msg("subheader", "Filtered Results:")>>
        \o [i \in 1..Min(Len(videos), DisplayLimit) |->
                [kind |-> "markdown", text |-> "item", n |-> i, v |-> videos[i]]]
        \o (IF Len(videos) > DisplayLimit
            THEN <<[kind |-> "markdown", text |-> "...and more.",
                    n |-> Len(videos) - DisplayLimit]>>
            ELSE <<>>)

\* lines 131-134
RenderTopPick(b) ==
    IF b = None THEN <<>>
    ELSE <<Msg("subheader", "Top Pick:"),
           [kind |-> "success", text |-> "best", v |-> b],
           [kind |-> "markdown", text |-> "Watch on YouTube", url |-> b.url]>>

-----------------------------------------------------------------------------
(* One run of the script *)

Init ==
    /\ pc = "load"
    /\ mode = "Text"
    /\ pressed = FALSE
    /\ voice_enabled = FALSE
    /\ query = ""
    /\ ids = <<>>
    /\ details = NoDetails
    /\ filtered = <<>>
    /\ choice = NoChoice
    /\ best = None
    /\ calls = <<>>
    /\ raised = {}
    /\ out = <<>>

\* lines 1-25: the imports and the page set-up.  Line 5 imports
\* speech_recognition outside any try: without the package the run ends there
\* with ImportError, and where line 22 is reached the import succeeds.
LoadModules ==
    /\ pc = "load"
    /\ \E installed \in BOOLEAN :
        IF installed
        THEN /\ voice_enabled' = TRUE
             /\ pc' = "input"
             /\ raised' = raised
        ELSE /\ voice_enabled' = voice_enabled
             /\ pc' = "crashed"
             /\ raised' = raised \cup {"import"}
    /\ UNCHANGED <<mode, pressed, query, ids, details, filtered, choice, best, calls, out>>

\* lines 18, 50: Text mode, the text field's value
TextInput ==
    /\ pc = "input"
    /\ \E q \in Queries \cup {""} :
        /\ mode' = "Text"
        /\ query' = q
    /\ pc' = "main"
    /\ UNCHANGED <<pressed, voice_enabled, ids, details, filtered, choice, best, calls,
                   raised, out>>

\* lines 18, 50-51: Voice mode, the button not pressed
VoiceIdle ==
    /\ pc = "input"
    /\ mode' = "Voice"
    /\ pressed' = FALSE
    /\ query' = ""
    /\ pc' = "main"
    /\ UNCHANGED <<voice_enabled, ids, details, filtered, choice, best, calls, raised, out>>

\* lines 18, 50-57: Voice mode, the button pressed
VoiceRecord ==
    /\ pc = "input"
    /\ \E o \in VoiceOutcomes :
        LET r == record_voice(voice_enabled, o)
        IN  /\ query' = r.ret
            /\ calls' = calls \o r.calls
            /\ raised' = raised \cup r.raised
            /\ out' = out \o r.out
                        \o (IF r.ret # ""
                            THEN <<Msg("success", "You said")>>
                            ELSE <<Msg("warning", "No valid voice input detected.")>>)
    /\ mode' = "Voice"
    /\ pressed' = TRUE
    /\ pc' = "main"
    /\ UNCHANGED <<voice_enabled, ids, details, filtered, choice, best>>

\* line 109: if query, false
NoQuery ==
    /\ pc = "main"
    /\ query = ""
    /\ pc' = "done"
    /\ UNCHANGED <<mode, pressed, voice_enabled, query, ids, details, filtered, choice,
                   best, calls, raised, out>>

\* lines 109-111
Search ==
    /\ pc = "main"
    /\ query # ""
    /\ \E resp \in SearchResponses :
        LET r == search_youtube(query, resp)
        IN  /\ ids' = r.ret
            /\ calls' = calls \o r.calls
            /\ raised' = raised \cup r.raised
            /\ out' = out \o r.out
    /\ pc' = "searched"
    /\ UNCHANGED <<mode, pressed, voice_enabled, query, details, filtered, choice, best>>

\* lines 113-114
NoVideosFound ==
    /\ pc = "searched"
    /\ ids = <<>>
    /\ out' = Append(out, Msg("warning", "No videos found."))
    /\ pc' = "done"
    /\ UNCHANGED <<mode, pressed, voice_enabled, query, ids, details, filtered, choice,
                   best, calls, raised>>

\* lines 115-117, the metadata call answering resp
FilterOn(resp) ==
    /\ pc = "searched"
    /\ ids # <<>>
    /\ LET r == filter_videos(ids, resp)
       IN  /\ filtered' = r.ret
           /\ calls' = calls \o r.calls
           /\ raised' = raised \cup r.raised
           /\ out' = out \o r.out
    /\ pc' = "filtered"
    /\ UNCHANGED <<mode, pressed, voice_enabled, query, ids, details, choice, best>>

Filter ==
    /\ pc = "searched"
    /\ \/ FilterOn(DetailsRaises)
       \/ \E reversed \in BOOLEAN, d \in [1..Len(ids) -> IsoDurations] :
                FilterOn(DetailsOk(ids, reversed, d))

\* lines 119-120
NoVideosInRange ==
    /\ pc = "filtered"
    /\ filtered = <<>>
    /\ out' = Append(out, Msg("warning", "No videos in the 4-20 min range."))
    /\ pc' = "done"
    /\ UNCHANGED <<mode, pressed, voice_enabled, query, ids, details, filtered, choice,
                   best, calls, raised>>

\* lines 121-126 without the test of line 119
Display_NoEmptyTest ==
    /\ pc = "filtered"
    /\ out' = out \o RenderResults(filtered)
    /\ pc' = "displayed"
    /\ UNCHANGED <<mode, pressed, voice_enabled, query, ids, details, filtered, choice,
                   best, calls, raised>>

\* lines 121-126
Display ==
    /\ pc = "filtered"
    /\ filtered # <<>>
    /\ out' = out \o RenderResults(filtered)
    /\ pc' = "displayed"
    /\ UNCHANGED <<mode, pressed, voice_enabled, query, ids, details, filtered, choice,
                   best, calls, raised>>

\* lines 128-129
Select ==
    /\ pc = "displayed"
    /\ \E r \in {select_parsed(filtered, query, parsed) : parsed \in ParsedReplies} :
        /\ best' = r.ret
        /\ calls' = calls \o r.calls
        /\ raised' = raised \cup r.raised
        /\ out' = out \o r.out
    /\ pc' = "selected"
    /\ UNCHANGED <<mode, pressed, voice_enabled, query, ids, details, filtered, choice>>

\* lines 131-134
TopPick ==
    /\ pc = "selected"
    /\ out' = out \o RenderTopPick(best)
    /\ pc' = "done"
    /\ UNCHANGED <<mode, pressed, voice_enabled, query, ids, details, filtered, choice,
                   best, calls, raised>>

Next ==
    \/ LoadModules
    \/ TextInput
    \/ VoiceIdle
    \/ VoiceRecord
    \/ NoQuery
    \/ Search
    \/ NoVideosFound
    \/ Filter
    \/ NoVideosInRange
    \/ Display
    \/ Select
    \/ TopPick

Spec == Init /\ [][Next]_vars

-----------------------------------------------------------------------------
(* filter_videos applied to bounded inputs: the state after the call holds   *)
(* the response (the local details) beside the result.                       *)

IdLists == {[i \in 1..n |-> i] : n \in 0..MaxIds}

InitFilter ==
    /\ pc = "filter_videos"
    /\ ids \in IdLists
    /\ mode = "Text"
    /\ pressed = FALSE
    /\ voice_enabled = TRUE
    /\ query \in Queries
    /\ details = NoDetails
    /\ filtered = <<>>
    /\ choice = NoChoice
    /\ best = None
    /\ calls = <<>>
    /\ raised = {}
    /\ out = <<>>

\* lines 76-91, the metadata call answering resp
CallFilterVideosOn(resp) ==
    /\ pc = "filter_videos"
    /\ LET r == filter_videos(ids, resp)
       IN  /\ details' = IF r.calls = <<>> THEN NoDetails ELSE resp
           /\ filtered' = r.ret
           /\ calls' = calls \o r.calls
           /\ raised' = raised \cup r.raised
           /\ out' = out \o r.out
    /\ pc' = "filter_videos returned"
    /\ UNCHANGED <<mode, pressed, voice_enabled, query, ids, choice, best>>

CallFilterVideos ==
    /\ pc = "filter_videos"
    /\ \/ CallFilterVideosOn(DetailsRaises)
       \/ \E reversed \in BOOLEAN, d \in [1..Len(ids) -> IsoDurations] :
                CallFilterVideosOn(DetailsOk(ids, reversed, d))

NextFilter == CallFilterVideos

SpecFilter == InitFilter /\ [][NextFilter]_vars

-----------------------------------------------------------------------------
(* select_best_video applied to bounded inputs: the state after the call     *)
(* holds the model's reply (the local choice) beside the result.             *)

VideoLists ==
    {[i \in 1..n |-> VideoRecord([id |-> i], 60 * (MinMinutes + i))] : n \in 0..MaxIds}

InitSelect ==
    /\ pc = "select_best_video"
    /\ filtered \in VideoLists
    /\ query \in Queries \cup {""}
    /\ mode = "Text"
    /\ pressed = FALSE
    /\ voice_enabled = TRUE
    /\ ids = <<>>
    /\ details = NoDetails
    /\ choice = NoChoice
    /\ best = None
    /\ calls = <<>>
    /\ raised = {}
    /\ out = <<>>

\* lines 93-106
CallSelectBestVideo ==
    /\ pc = "select_best_video"
    /\ \E resp \in ModelResponses :
        LET r == select_best_video(filtered, query, resp)
        IN  /\ choice' = IF r.calls = <<>> THEN NoChoice ELSE resp
            /\ best' = r.ret
            /\ calls' = calls \o r.calls
            /\ raised' = raised \cup r.raised
            /\ out' = out \o r.out
    /\ pc' = "select_best_video returned"
    /\ UNCHANGED <<mode, pressed, voice_enabled, query, ids, details, filtered>>

NextSelect == CallSelectBestVideo

SpecSelect == InitSelect /\ [][NextSelect]_vars

-----------------------------------------------------------------------------
(* The properties checked *)

\* the duration an ISO-8601 string PT<H>H<M>M<S>S denotes, in seconds
DurationSeconds(iso) == iso.H * 3600 + iso.M * 60 + iso.S

FilterReturned == pc = "filter_videos returned"

SelectReturned == pc = "select_best_video returned"

\* the positions of a response's items whose duration does not parse
BadItems(items) == {i \in 1..Len(items) : ~items[i].duration.ok}

\* the first item that raises, or one past the last item
FirstBad(items) ==
    IF BadItems(items) = {} THEN Len(items) + 1
    ELSE CHOOSE i \in BadItems(items) : \A j \in BadItems(items) : i <= j

\* C1: every record filter_videos returns has a duration of 4 to 20 minutes,
\* both ends included, and no item whose duration is under 4 or over 20
\* minutes has a record in the result, whatever the response and also when
\* the response fails part-way.
C1_DurationWindow ==
    FilterReturned =>
        /\ \A k \in 1..Len(filtered) :
                4 * 100 <= filtered[k].duration /\ filtered[k].duration <= 20 * 100
        /\ \A i \in 1..Len(details.items) :
                LET it == details.items[i]
                IN  (it.duration.ok
                        /\ (DurationSeconds(it.duration) < 4 * 60
                                \/ DurationSeconds(it.duration) > 20 * 60))
                    => \A k \in 1..Len(filtered) :
                            filtered[k].url # <<"https://www.youtube.com/watch?v=", it.id>>

\* a response with a record kept, an item over 20 minutes, an item under 4
\* minutes, and an item that raises
C1_Witness ==
    /\ FilterReturned
    /\ filtered # <<>>
    /\ "parse_duration" \in raised
    /\ \E i, j \in 1..Len(details.items) :
            /\ details.items[i].duration = Iso(0, 20, 1)
            /\ details.items[j].duration = Iso(0, 3, 59)
            /\ i < FirstBad(details.items)
            /\ j < FirstBad(details.items)

\* the positions whose records the claim says are returned
Kept(items) ==
    {j \in 1..(FirstBad(items) - 1) :
        4 * 60 <= DurationSeconds(items[j].duration)
            /\ DurationSeconds(items[j].duration) <= 20 * 60}

\* the k-th position of a set of positions
Nth(S, k) == CHOOSE j \in S : Cardinality({i \in S : i <= j}) = k

\* C9: filter_videos returns the records of the in-window items that come
\* before the first item that raises, in the order of the response; items
\* from the raising one on are dropped, an error is reported, and when the
\* metadata call itself fails the result is empty.
C9_PartialInOrder ==
    (FilterReturned /\ ids # <<>>) =>
        LET items == details.items
        IN  /\ Len(filtered) = Cardinality(Kept(items))
            /\ \A k \in 1..Len(filtered) :
                    LET it == items[Nth(Kept(items), k)]
                    IN  /\ filtered[k].url = <<"https://www.youtube.com/watch?v=", it.id>>
                        /\ filtered[k].title = <<"title of", it.id>>
                        /\ filtered[k].duration * 60 <= DurationSeconds(it.duration) * 100 + 30
                        /\ filtered[k].duration * 60 > DurationSeconds(it.duration) * 100 - 30
            /\ BadItems(items) # {} => Shown("error", "Duration Filter Error")
            /\ details.status = "raise" =>
                    filtered = <<>> /\ Shown("error", "Duration Filter Error")

\* a response in the opposite order of the request whose third item raises,
\* with two records kept before it and an in-window item after it
C9_Witness ==
    /\ FilterReturned
    /\ Len(ids) >= 4
    /\ details.status = "ok"
    /\ details.items[1].id # ids[1]
    /\ FirstBad(details.items) = 3
    /\ Len(filtered) = 2
    /\ \E j \in 4..Len(details.items) : details.items[j].duration = Iso(0, 4, 0)

\* a reply without the spaces at its ends
Trimmed(s) ==
    LET inner == {i \in 1..Len(s) : s[i] # " "}
    IN  IF inner = {} THEN <<>>
        ELSE SubSeq(s, CHOOSE a \in inner : \A b \in inner : a <= b,
                       CHOOSE a \in inner : \A b \in inner : a >= b)

\* a plain integer string: decimal digits only
IsDigits(s) == s # <<>> /\ \A i \in 1..Len(s) : IsDigit(s[i])

RECURSIVE Decimal(_)
Decimal(s) == IF s = <<>> THEN 0 ELSE Decimal(SubSeq(s, 1, Len(s) - 1)) * 10 + DigitVal(Last(s))

\* C2: with videos and a query, when the model's reply, trimmed, is an
\* integer string k with 1 <= k <= len(videos), select_best_video returns
\* videos[k-1] (the k-th video).
C2_ReplyInRange ==
    (SelectReturned /\ filtered # <<>> /\ query # "" /\ choice.status = "text"
        /\ IsDigits(Trimmed(choice.text))
        /\ 1 <= Decimal(Trimmed(choice.text))
        /\ Decimal(Trimmed(choice.text)) <= Len(filtered))
    => best = filtered[Decimal(Trimmed(choice.text))]

\* the reply " 2" on a list of at least two videos
C2_Witness ==
    /\ SelectReturned
    /\ Len(filtered) >= 2
    /\ choice = [status |-> "text", text |-> <<" ", "2">>]
    /\ best = filtered[2]

\* the replies the claim lists: the call raises, or the reply does not parse
\* as an integer, or it parses to a number under 1 or over len(videos)
FallbackReply(videos, c) ==
    \/ c.status = "raise"
    \/ /\ c.status = "text"
       /\ \/ ~int(c.text).ok
          \/ int(c.text).val < 1
          \/ int(c.text).val > Len(videos)

\* C3: with videos and a query, when the model call raises or the reply is
\* "0", not an integer, under 1 or over len(videos), select_best_video
\* returns videos[0] (the first video), never None.
C3_Fallback ==
    (SelectReturned /\ filtered # <<>> /\ query # "") =>
        /\ FallbackReply(filtered, choice) => best = filtered[1]
        /\ (choice.status = "text"
                /\ \/ Trimmed(choice.text) \in {<<"0">>, <<"x">>, <<>>, <<"-", "1">>}
                   \/ \E i \in 1..Len(choice.text) : choice.text[i] = "x"
                   \/ (IsDigits(Trimmed(choice.text))
                            /\ Decimal(Trimmed(choice.text)) > Len(filtered)))
            => best = filtered[1]
        /\ best # None

\* the reply "0" on a list of at least two videos
C3_Witness ==
    /\ SelectReturned
    /\ Len(filtered) >= 2
    /\ query # ""
    /\ choice = [status |-> "text", text |-> <<"0">>]
    /\ best = filtered[1]

\* C4: select_best_video returns None for an empty list of videos, whatever
\* the query, and the first video for videos and an empty query, in both
\* cases without a model call; with videos and a query the model is called
\* exactly once.
C4_EdgeCases ==
    SelectReturned =>
        /\ filtered = <<>> => (best = None /\ calls = <<>> /\ choice = NoChoice)
        /\ (filtered # <<>> /\ query = "") =>
                (best = filtered[1] /\ calls = <<>> /\ choice = NoChoice)
        /\ (filtered # <<>> /\ query # "") =>
                (calls = <<"generate_content">> /\ choice # NoChoice)

\* videos and an empty query
C4_Witness ==
    /\ SelectReturned
    /\ Len(filtered) >= 2
    /\ query = ""
    /\ best = filtered[1]
    /\ calls = <<>>

IsApiCall(c) == c \in {"search", "videos", "generate_content"}

\* the search, metadata and model calls of the run, in order
ApiCalls == SelectSeq(calls, IsApiCall)

IsVoiceCall(c) == c = "record_voice"

IsItem(m) == m.text = "item"

IsMore(m) == m.text = "...and more."

IsError(m) == m.kind = "error"

\* the numbered records and the remainder lines the page shows
Items == SelectSeq(out, IsItem)

More == SelectSeq(out, IsMore)

NoneFound == Shown("warning", "No videos found.")

NoneInRange == Shown("warning", "No videos in the 4-20 min range.")

TopPickShown == Shown("subheader", "Top Pick:")

ResultsShown == Shown("subheader", "Filtered Results:")

\* C5: in a run the search, the metadata fetch and the model call happen at
\* most once each and in that order; the metadata fetch only after a search
\* that returned an identifier (otherwise "No videos found." is shown and
\* nothing else runs), the model call only after a filter that returned a
\* record (otherwise "No videos in the 4-20 min range." is shown and the
\* selector is not called).
C5_CallOrder ==
    /\ ApiCalls \in {<<>>, <<"search">>, <<"search", "videos">>,
                     <<"search", "videos", "generate_content">>}
    /\ Len(ApiCalls) >= 2 => ids # <<>>
    /\ Len(ApiCalls) >= 3 => filtered # <<>>
    /\ (pc = "done" /\ ApiCalls # <<>> /\ ids = <<>>) =>
            (NoneFound /\ Last(out) = Msg("warning", "No videos found.")
                /\ ApiCalls = <<"search">> /\ best = None)
    /\ (pc = "done" /\ ids # <<>> /\ filtered = <<>>) =>
            (NoneInRange /\ Last(out) = Msg("warning", "No videos in the 4-20 min range.")
                /\ ApiCalls = <<"search", "videos">> /\ best = None)
    /\ NoneFound => (ids = <<>> /\ pc = "done")
    /\ NoneInRange => (filtered = <<>> /\ pc = "done")

\* a run whose search returned identifiers and whose filter kept none
C5_Witness ==
    /\ pc = "done"
    /\ Len(ids) >= 2
    /\ NoneInRange
    /\ ApiCalls = <<"search", "videos">>

\* C6 as stated: every failure of the search, metadata or model call is
\* caught, shows an error message and makes the function return a neutral
\* value, and none ends the run.
C6_EveryFailureShown ==
    /\ "search" \in raised => (Shown("error", "API Error") /\ ids = <<>>)
    /\ "videos" \in raised => (Shown("error", "Duration Filter Error") /\ filtered = <<>>)
    /\ "generate_content" \in raised =>
            (best = filtered[1] /\ \E i \in 1..Len(out) : IsError(out[i]))
    /\ raised \cap {"search", "videos", "generate_content"} # {} => pc # "crashed"

\* C6, amended: a failure of the search call or of the metadata call is
\* caught, shows an error message and makes the function return its neutral
\* value (no identifiers; no records when the metadata call itself fails); a
\* failure of the model call is caught and makes the selector return the
\* first candidate, and shows nothing; none ends the run.
C6_FailuresCaught ==
    /\ "search" \in raised => (Shown("error", "API Error") /\ ids = <<>>)
    /\ "videos" \in raised => (Shown("error", "Duration Filter Error") /\ filtered = <<>>)
    /\ "generate_content" \in raised =>
            /\ best = filtered[1]
            /\ Len(SelectSeq(out, IsError))
                    = Cardinality(raised \cap {"search", "videos", "parse_duration"})
    /\ raised \cap {"search", "videos", "generate_content"} # {} =>
            (pc # "crashed" /\ (pc = "done" \/ ENABLED Next))

\* a run whose model call raised, with two records to choose from
C6_Witness ==
    /\ pc = "done"
    /\ raised = {"generate_content"}
    /\ Len(filtered) >= 2
    /\ best = filtered[1]
    /\ TopPickShown

\* the input has been read
InputRead == pc \notin {"load", "input", "crashed"}

C8_Display ==
    (pc \in {"displayed", "selected", "done"} /\ filtered # <<>>) =>
        LET n == Len(filtered)
            rest == IF More = <<>> THEN 0 ELSE More[1].n
        IN  /\ Len(Items) = (IF n <= 5 THEN n ELSE 5)
            /\ \A i \in 1..Len(Items) : Items[i].n = i /\ Items[i].v = filtered[i]
            /\ Len(More) <= 1
            /\ (More # <<>>) <=> (n > 5)
            /\ n > 5 => More[1].n = n - 5
            /\ Len(Items) + rest = n

\* six filtered records: five shown and "...and 1 more."
C8_Witness ==
    /\ pc = "displayed"
    /\ Len(filtered) = 6
    /\ Len(Items) = 5
    /\ More # <<>>
    /\ More[1].n = 1

\* C10: a run with a query ends with exactly one of "No videos found.", "No
\* videos in the 4-20 min range." and a Top Pick; once the filtered results
\* are shown a Top Pick follows, whatever the model replies or however it
\* fails, and the Top Pick is one of the filtered records.
C10_Outcomes ==
    /\ (pc = "done" /\ query # "") =>
            /\ NoneFound \/ NoneInRange \/ TopPickShown
            /\ ~(NoneFound /\ NoneInRange)
            /\ ~(NoneFound /\ TopPickShown)
            /\ ~(NoneInRange /\ TopPickShown)
    /\ (pc = "done" /\ ResultsShown) => TopPickShown
    /\ pc \in {"selected", "done"} /\ ResultsShown =>
            (best # None /\ \E k \in 1..Len(filtered) : best = filtered[k])
    /\ \A i \in 1..Len(out) :
            (out[i].kind = "success" /\ out[i].text = "best") =>
                \E k \in 1..Len(filtered) : out[i].v = filtered[k]
    /\ (query # "" /\ InputRead /\ pc # "done") => ENABLED Next

\* a run that ends with the second filtered record as the Top Pick
C10_Witness ==
    /\ pc = "done"
    /\ TopPickShown
    /\ Len(filtered) >= 3
    /\ best = filtered[2]
    /\ raised = {}

====
